---------------------------- MODULE Spec2Model ----------------------------
(***************************************************************************)
(* The malice/bitdefender plugin: the scanner-output parser, the scan and  *)
(* update commands, and the HTTP scan handler.                             *)
(*                                                                         *)
(* The repository holds two programs (both "package main"):                *)
(*   src/unnamed/part_000  the current plugin (global "path", assert())    *)
(*   src/scan.go           the earlier plugin (AvScan(path, timeout))      *)
(* ParseBitdefenderOutput and extractVirusName are the same text in both.  *)
(* Definitions without a suffix model part_000; the suffix Old marks the   *)
(* functions of scan.go that differ.                                       *)
(*                                                                         *)
(* Go strings are modelled as sequences of one-character strings, so that  *)
(* strings.Split, Contains, Fields, TrimSpace and HasPrefix are computed   *)
(* character by character as the library computes them.                    *)
(***************************************************************************)
EXTENDS Integers, Sequences, FiniteSets, TLC

VARIABLES
    prog,       \* which program runs: "part_000" or "scan.go"
    cmd,        \* command line: "scan", "update" or "web"
    pc,         \* position of main's goroutine
    proc,       \* the OS process: "running", "exit0", "fatal", "exit2"
    sentinel,   \* the file /opt/malice/UPDATED
    out,        \* stdout text returned by utils.RunCommand
    err,        \* error returned by utils.RunCommand
    bitdefender,\* ResultsData returned by AvScan to main (NoResult before)
    emitted,    \* ResultsData serialized / stored / printed by main
    retErr,     \* error returned by updateAV to its caller
    path,       \* part_000's package-level var path
    req,        \* the HTTP requests in flight, one handler goroutine each
    files       \* the temp files under /malware: name -> content

vars == <<prog, cmd, pc, proc, sentinel, out, err, bitdefender, emitted, retErr,
          path, req, files>>

-----------------------------------------------------------------------------
(* Bounds *)

\* Number of text chunks a scanner output is assembled from.
MaxChunks == 3

\* Number of HTTP requests handled concurrently.
NumRequests == 2

-----------------------------------------------------------------------------
(* Go strings *)

\* "infected:"
MarkerInfected == <<"i","n","f","e","c","t","e","d",":">>

\* "Unices v"
MarkerUnices == <<"U","n","i","c","e","s"," ","v">>

\* "\n"
Newline == <<"\n">>

\* unicode.IsSpace, for the ASCII characters of the model's texts
IsSpace(c) == c \in {" ", "\t", "\n", "\r", "\f"}

HasPrefixAt(s, i, p) ==
    /\ i + Len(p) - 1 <= Len(s)
    /\ SubSeq(s, i, i + Len(p) - 1) = p

\* strings.Index, 1-based; 0 when absent
Index(s, p) ==
    LET hits == {i \in 1..Len(s) : HasPrefixAt(s, i, p)}
    IN  IF hits = {} THEN 0 ELSE CHOOSE i \in hits : \A j \in hits : i <= j

\* strings.Contains
Contains(s, p) == Index(s, p) # 0

\* strings.HasPrefix
HasPrefix(s, p) == HasPrefixAt(s, 1, p)

\* strings.TrimPrefix
TrimPrefix(s, p) == IF HasPrefix(s, p) THEN SubSeq(s, Len(p) + 1, Len(s)) ELSE s

\* strings.Split with a non-empty separator
RECURSIVE Split(_, _)
Split(s, sep) ==
    LET i == Index(s, sep)
    IN  IF i = 0 THEN <<s>>
        ELSE <<SubSeq(s, 1, i - 1)>> \o Split(SubSeq(s, i + Len(sep), Len(s)), sep)

\* strings.TrimSpace
TrimSpace(s) ==
    LET keep == {i \in 1..Len(s) : ~IsSpace(s[i])}
    IN  IF keep = {} THEN <<>>
        ELSE LET lo == CHOOSE i \in keep : \A j \in keep : i <= j
                 hi == CHOOSE i \in keep : \A j \in keep : i >= j
             IN  SubSeq(s, lo, hi)

\* strings.Fields: the maximal runs of non-space characters, in order
RECURSIVE Fields(_)
Fields(s) ==
    IF s = <<>> THEN <<>>
    ELSE IF IsSpace(s[1]) THEN Fields(Tail(s))
    ELSE LET stops == {i \in 1..Len(s) : IsSpace(s[i])}
             end   == IF stops = {} THEN Len(s) + 1
                      ELSE CHOOSE i \in stops : \A j \in stops : i <= j
         IN  <<SubSeq(s, 1, end - 1)>> \o Fields(SubSeq(s, end, Len(s)))

-----------------------------------------------------------------------------
(* Errors and the result record *)

NoErr == "nil"

\* the scanner's exit status when it found an infected file
ErrInfected == "exit status 1"

\* process-level failures of utils.RunCommand: another exit status, the
\* context's timeout killing the scanner, the binary missing
ErrExit    == "exit status 2"
ErrTimeout == "signal: killed"
ErrSpawn   == "exec: bdscan: executable file not found in $PATH"
ProcessErrors == {ErrExit, ErrTimeout, ErrSpawn}

\* errors of the file system
ErrRead  == "open /opt/malice/UPDATED: permission denied"
ErrOpen  == "open /opt/malice/UPDATED: read-only file system"
ErrWrite == "write /opt/malice/UPDATED: no space left on device"

\* ResultsData{}
ZeroResult == [Infected |-> FALSE, Result |-> <<>>, Engine |-> <<>>, Updated |-> ""]

NoResult == [none |-> TRUE]

\* Version-stamp strings: the linker-set BuildTime and time.Now() formatted
BuildTime == "20180907"
Today     == "20261104"

\* the outcomes of a call that may end the process instead of returning
Return(v) == [kind |-> "return", val |-> v]
Fatal     == [kind |-> "fatal"]
Exit2     == [kind |-> "exit2"]

\* assert(err): log.Fatal unless err is nil or reads "exit status 1"
assert(e) == e # NoErr /\ e # ErrInfected

\* utils.Assert(err) of scan.go: log.Fatal on every non-nil error
assertOld(e) == e # NoErr

-----------------------------------------------------------------------------
(* The freshness sentinel /opt/malice/UPDATED *)

Absent     == [state |-> "absent", content |-> ""]
Present(c) == [state |-> "present", content |-> c]
\* the file is there and os.Stat or ioutil.ReadFile fails on it
Unreadable == [state |-> "unreadable", content |-> "20230615\n"]

SentinelStates == {Absent, Present("20230615\n"), Unreadable}

\* getUpdatedDate as the spec words it: a failed read falls back to BuildTime
getUpdatedDateFallback(s) ==
    IF s.state = "present" THEN Return(s.content) ELSE Return(BuildTime)

\* getUpdatedDate.  (scan.go's copy calls utils.Assert where this one calls
\* assert; a read error never reads "exit status 1", so both end the same.)
getUpdatedDate(s) ==
    IF s.state = "absent" THEN Return(BuildTime)
    ELSE IF s.state = "unreadable"
         THEN (IF assert(ErrRead) THEN Fatal ELSE Return(""))
         ELSE Return(s.content)

-----------------------------------------------------------------------------
(* ParseBitdefenderOutput *)

\* extractVirusName without the TrimSpace
extractVirusNameUntrimmed(line) ==
    LET keyvalue == Split(line, MarkerInfected)
    IN  keyvalue[2]

\* extractVirusName
extractVirusName(line) ==
    LET keyvalue == Split(line, MarkerInfected)
    IN  TrimSpace(keyvalue[2])

\* the loop over words of the "Unices v" case: every word that starts with
\* "v" overwrites Engine
RECURSIVE scanWords(_, _)
scanWords(words, engine) ==
    IF words = <<>> THEN engine
    ELSE scanWords(Tail(words),
                   IF HasPrefix(Head(words), <<"v">>)
                   THEN TrimPrefix(Head(words), <<"v">>)
                   ELSE engine)

\* the loop's body without the check of the name's length
parseLineUnchecked(line, b) ==
    IF Len(line) = 0 THEN b
    ELSE IF Contains(line, MarkerInfected)
    THEN [b EXCEPT !.Result = extractVirusName(line), !.Infected = TRUE]
    ELSE IF Contains(line, MarkerUnices)
    THEN [b EXCEPT !.Engine = scanWords(Fields(line), b.Engine)]
    ELSE b

\* one iteration of the loop over lines; b.exited records os.Exit(2)
parseLine(line, b) ==
    IF Len(line) = 0 THEN b
    ELSE IF Contains(line, MarkerInfected)
    THEN LET result == extractVirusName(line)
         IN  IF Len(result) # 0
             THEN [b EXCEPT !.Result = result, !.Infected = TRUE]
             ELSE [b EXCEPT !.exited = TRUE]
    ELSE IF Contains(line, MarkerUnices)
    THEN [b EXCEPT !.Engine = scanWords(Fields(line), b.Engine)]
    ELSE b

\* the loop over lines; os.Exit(2) ends it
RECURSIVE parseLines(_, _)
parseLines(lines, b) ==
    IF lines = <<>> \/ b.exited THEN b
    ELSE parseLines(Tail(lines), parseLine(Head(lines), b))

ParseBitdefenderOutput(bitdefenderout, e, s) ==
    IF e # NoErr THEN Return(ZeroResult)
    ELSE LET lines == Split(bitdefenderout, Newline)
             b == parseLines(lines, [Infected |-> FALSE, Result |-> <<>>,
                                     Engine |-> <<>>, exited |-> FALSE])
             updated == getUpdatedDate(s)
         IN  IF b.exited THEN Exit2
             ELSE IF updated.kind # "return" THEN Fatal
             ELSE Return([Infected |-> b.Infected, Result |-> b.Result,
                          Engine |-> b.Engine, Updated |-> updated.val])

-----------------------------------------------------------------------------
(* The scanner's output, as the environment may produce it *)

ChunkInfected == <<"p"," ">> \o MarkerInfected
ChunkName     == <<" ","v","N"," ">>
ChunkBanner   == MarkerUnices \o <<"7">>
ChunkSpace    == <<" ">>
\* a further report line, with another path and another name
ChunkSecond   == Newline \o <<"q"," ">> \o MarkerInfected \o <<" ","M">>

Chunks == {Newline, ChunkInfected, ChunkName, ChunkBanner, ChunkSpace, ChunkSecond}

RECURSIVE OutputsUpTo(_)
OutputsUpTo(n) ==
    IF n = 0 THEN {<<>>}
    ELSE LET prev == OutputsUpTo(n - 1)
         IN  prev \cup {o \o c : o \in prev, c \in Chunks}

Outputs == OutputsUpTo(MaxChunks)

\* what utils.RunCommand may return for "bdscan <path>": the text printed so
\* far, and the error
RunResults == {<<o, e>> : o \in Outputs, e \in {NoErr, ErrInfected} \cup ProcessErrors}

-----------------------------------------------------------------------------
(* The scan and update commands *)

Requests == 1..NumRequests

NoFile == "no file"
NoUpload == "no upload"

\* a request not yet received: no status or body written, no temp file, no
\* scan made, no result held
IdleRequest == [pc |-> "idle", upload |-> NoUpload, status |-> 0,
                body |-> NoResult, tmp |-> 0, scanned |-> 0,
                bitdefender |-> NoResult]

\* filepath.Abs(c.Args().First()): the file named on the command line
\* (positive values of path are the temp files of the web service)
ArgPath == -1

InitCommon ==
    /\ pc = "main"
    /\ proc = "running"
    /\ sentinel \in SentinelStates
    /\ out = <<>>
    /\ err = NoErr
    /\ bitdefender = NoResult
    /\ emitted = NoResult
    /\ retErr = NoErr
    /\ path = 0
    /\ req = [r \in Requests |-> IdleRequest]
    /\ files = [r \in Requests |-> NoFile]

Init ==
    /\ prog \in {"part_000", "scan.go"}
    /\ cmd \in {"scan", "update"}
    /\ InitCommon

\* AvScan of part_000: RunCommand's (results, err), assert(err), then the
\* parse with a nil error
AvScan(results, e, s) ==
    IF assert(e) THEN Fatal ELSE ParseBitdefenderOutput(results, NoErr, s)

\* AvScan of scan.go: RunCommand's pair goes to the parser as it is
AvScanOld(results, e, s) == ParseBitdefenderOutput(results, e, s)

\* main's action sets the path (part_000: the global; scan.go: a local) and
\* calls AvScan, where utils.RunCommand(ctx, "bdscan", path) returns
RunCommandScan ==
    /\ proc = "running" /\ pc = "main" /\ cmd = "scan"
    /\ \E r \in RunResults : out' = r[1] /\ err' = r[2]
    /\ path' = IF prog = "part_000" THEN ArgPath ELSE path
    /\ pc' = "ran"
    /\ UNCHANGED <<prog, cmd, proc, sentinel, bitdefender, emitted, retErr,
                   req, files>>

\* utils.RunCommand(ctx, "bdscan", "--update") returns; its output is only
\* logged or printed
RunCommandUpdate ==
    /\ proc = "running" /\ pc = "main" /\ cmd = "update"
    /\ err' \in {NoErr, ErrInfected} \cup ProcessErrors
    /\ out' = <<>>
    /\ pc' = "ran"
    /\ UNCHANGED <<prog, cmd, proc, sentinel, bitdefender, emitted, retErr,
                   path, req, files>>

\* the rest of AvScan as main's action sees it: a value, or the process ends
CallAvScan ==
    /\ proc = "running" /\ pc = "ran" /\ cmd = "scan"
    /\ LET r == IF prog = "part_000" THEN AvScan(out, err, sentinel)
                ELSE AvScanOld(out, err, sentinel)
       IN  IF r.kind = "return"
           THEN bitdefender' = r.val /\ pc' = "scanned" /\ proc' = proc
           ELSE bitdefender' = bitdefender /\ pc' = pc /\ proc' = r.kind
    /\ UNCHANGED <<prog, cmd, sentinel, out, err, emitted, retErr, path, req, files>>

\* main's action after AvScan returned: the result is stored, posted or
\* printed (a failing store or post is not told apart here)
Publish ==
    /\ proc = "running" /\ pc = "scanned"
    /\ emitted' = bitdefender
    /\ pc' = "done"
    /\ proc' = "exit0"
    /\ UNCHANGED <<prog, cmd, sentinel, out, err, bitdefender, retErr, path, req, files>>

\* ioutil.WriteFile("/opt/malice/UPDATED", t, 0644): written; or the open
\* fails and the file is as before; or the open truncated it and the write
\* fails
WriteSentinel(s) ==
    {<<Present(Today), NoErr>>, <<s, ErrOpen>>, <<Present(""), ErrWrite>>}

\* updateAV of part_000 and the caller's assert on the error it returns
updateAV ==
    /\ proc = "running" /\ pc = "ran" /\ cmd = "update" /\ prog = "part_000"
    /\ IF assert(err)
       THEN proc' = "fatal" /\ UNCHANGED <<sentinel, retErr, pc>>
       ELSE \E w \in WriteSentinel(sentinel) :
                /\ sentinel' = w[1]
                /\ retErr' = w[2]
                /\ pc' = "done"
                /\ proc' = IF assert(w[2]) THEN "fatal" ELSE "exit0"
    /\ UNCHANGED <<prog, cmd, out, err, bitdefender, emitted, path, req, files>>

\* updateAV of scan.go: RunCommand's error is printed, never looked at
updateAVOld ==
    /\ proc = "running" /\ pc = "ran" /\ cmd = "update" /\ prog = "scan.go"
    /\ \E w \in WriteSentinel(sentinel) :
           /\ sentinel' = w[1]
           /\ retErr' = w[2]
           /\ pc' = "done"
           /\ proc' = IF assertOld(w[2]) THEN "fatal" ELSE "exit0"
    /\ UNCHANGED <<prog, cmd, out, err, bitdefender, emitted, path, req, files>>

Next ==
    \/ RunCommandScan
    \/ RunCommandUpdate
    \/ CallAvScan
    \/ Publish
    \/ updateAV
    \/ updateAVOld

Spec == Init /\ [][Next]_vars

-----------------------------------------------------------------------------
(* The web service of part_000: POST /scan, one goroutine per request *)

\* what an upload holds
Uploads == {"clean", "eicar", "corrupt"}

\* what bdscan prints and how it exits for a file of each kind (a file that
\* is gone makes it fail); the scanner may also fail at process level
ScannerRun(content) ==
    (CASE content = "eicar" ->
              {<<ChunkBanner \o Newline \o ChunkInfected \o ChunkName, ErrInfected>>}
       [] content = "corrupt" ->
              {<<ChunkBanner \o Newline \o ChunkInfected \o ChunkSpace, ErrInfected>>}
       [] content = NoFile -> {<<<<>>, ErrInfected>>, <<<<>>, ErrExit>>}
       [] OTHER -> {<<ChunkBanner, NoErr>>})
    \cup {<<<<>>, e>> : e \in {ErrTimeout}}

BadRequestText == [text |-> "Please supply a valid file to scan."]

WebInit ==
    /\ prog = "part_000"
    /\ cmd = "web"
    /\ InitCommon

\* net/http hands a POST /scan to webAvScan on a goroutine of its own
Receive(r) ==
    /\ proc = "running" /\ cmd = "web"
    /\ req[r].pc = "idle"
    /\ \E u \in Uploads \cup {NoUpload} :
           req' = [req EXCEPT ![r].pc = "formfile", ![r].upload = u]
    /\ UNCHANGED <<prog, cmd, pc, proc, sentinel, out, err, bitdefender, emitted,
                   retErr, path, files>>

\* r.FormFile("malware") up to the first use of header: without the field
\* the 400 and the text are written, nothing returns, and file.Close /
\* header.Filename dereference nil: the handler panics (net/http recovers)
FormFile(r) ==
    /\ proc = "running" /\ cmd = "web"
    /\ req[r].pc = "formfile"
    /\ IF req[r].upload = NoUpload
       THEN req' = [req EXCEPT ![r].status = 400, ![r].body = BadRequestText,
                               ![r].pc = "panicked"]
       ELSE req' = [req EXCEPT ![r].pc = "tempfile"]
    /\ UNCHANGED <<prog, cmd, pc, proc, sentinel, out, err, bitdefender, emitted,
                   retErr, path, files>>

\* ioutil.TempFile("/malware", "web_") and the deferred os.Remove; the name
\* is new each time, here the request's number.  log.Fatal ends the process.
TempFile(r) ==
    /\ proc = "running" /\ cmd = "web"
    /\ req[r].pc = "tempfile"
    /\ \/ /\ req' = [req EXCEPT ![r].tmp = r, ![r].pc = "write"]
          /\ files' = [files EXCEPT ![r] = "empty"]
          /\ proc' = proc
       \/ /\ req' = [req EXCEPT ![r].pc = "exited"]
          /\ proc' = "fatal"
          /\ files' = files
    /\ UNCHANGED <<prog, cmd, pc, sentinel, out, err, bitdefender, emitted,
                   retErr, path>>

\* ioutil.ReadAll, assert, tmpfile.Write, tmpfile.Close
WriteTmp(r) ==
    /\ proc = "running" /\ cmd = "web"
    /\ req[r].pc = "write"
    /\ \/ /\ req' = [req EXCEPT ![r].pc = "setpath"]
          /\ files' = [files EXCEPT ![req[r].tmp] = req[r].upload]
          /\ proc' = proc
       \/ /\ req' = [req EXCEPT ![r].pc = "exited"]
          /\ proc' = "fatal"
          /\ files' = files
    /\ UNCHANGED <<prog, cmd, pc, sentinel, out, err, bitdefender, emitted,
                   retErr, path>>

\* path = tmpfile.Name(): a write of the package-level variable that no lock
\* orders with the other goroutines' writes and reads
SetPath(r) ==
    /\ proc = "running" /\ cmd = "web"
    /\ req[r].pc = "setpath"
    /\ path' = req[r].tmp
    /\ req' = [req EXCEPT ![r].pc = "avscan"]
    /\ UNCHANGED <<prog, cmd, pc, proc, sentinel, out, err, bitdefender, emitted,
                   retErr, files>>

\* bitdefender := AvScan(60): AvScan reads the package-level path, and the
\* scanner runs on whatever file it names at that moment
WebAvScan(r) ==
    /\ proc = "running" /\ cmd = "web"
    /\ req[r].pc = "avscan"
    /\ \E run \in ScannerRun(files[path]) :
           LET res == AvScan(run[1], run[2], sentinel)
           IN  IF res.kind = "return"
               THEN /\ req' = [req EXCEPT ![r].bitdefender = res.val,
                                          ![r].scanned = path,
                                          ![r].pc = "respond"]
                    /\ proc' = proc
               ELSE /\ req' = [req EXCEPT ![r].scanned = path, ![r].pc = "exited"]
                    /\ proc' = res.kind
    /\ UNCHANGED <<prog, cmd, pc, sentinel, out, err, bitdefender, emitted,
                   retErr, path, files>>

\* WriteHeader(200), Encode, and on return the deferred os.Remove
Respond(r) ==
    /\ proc = "running" /\ cmd = "web"
    /\ req[r].pc = "respond"
    /\ \/ /\ req' = [req EXCEPT ![r].status = 200, ![r].body = req[r].bitdefender,
                                ![r].pc = "done"]
          /\ files' = [files EXCEPT ![req[r].tmp] = NoFile]
          /\ proc' = proc
       \/ /\ req' = [req EXCEPT ![r].status = 200, ![r].pc = "exited"]
          /\ proc' = "fatal"
          /\ files' = files
    /\ UNCHANGED <<prog, cmd, pc, sentinel, out, err, bitdefender, emitted,
                   retErr, path>>

webAvScan(r) ==
    \/ FormFile(r)
    \/ TempFile(r)
    \/ WriteTmp(r)
    \/ SetPath(r)
    \/ WebAvScan(r)
    \/ Respond(r)

WebNext == \E r \in Requests : Receive(r) \/ webAvScan(r)

WebSpec == WebInit /\ [][WebNext]_vars

-----------------------------------------------------------------------------
(* Vocabulary of the properties *)

\* the lines of a scanner output
LinesOf(o) == Split(o, Newline)

\* the positions of the lines that hold "infected:"
InfectedLines(o) ==
    {i \in 1..Len(LinesOf(o)) : Contains(LinesOf(o)[i], MarkerInfected)}

\* the positions of the banner lines: "Unices v" and no "infected:"
BannerLines(o) ==
    {i \in 1..Len(LinesOf(o)) :
        /\ Contains(LinesOf(o)[i], MarkerUnices)
        /\ ~Contains(LinesOf(o)[i], MarkerInfected)}

Last(S) == CHOOSE i \in S : \A j \in S : i >= j

\* all the text of a line after its first "infected:"
AfterMarker(line) ==
    SubSeq(line, Index(line, MarkerInfected) + Len(MarkerInfected), Len(line))

\* the text after the first "infected:" up to the next "infected:" or the
\* end of the line
NameSegment(line) ==
    LET rest == AfterMarker(line)
        j    == Index(rest, MarkerInfected)
    IN  IF j = 0 THEN rest ELSE SubSeq(rest, 1, j - 1)

\* some report line carries no name
HasEmptyName(o) ==
    \E i \in InfectedLines(o) : TrimSpace(AfterMarker(LinesOf(o)[i])) = <<>>

\* the first word of a line that starts with "v", without that "v"
FirstVersion(line) ==
    LET words == Fields(line)
        vs    == {k \in 1..Len(words) : words[k][1] = "v"}
        k     == CHOOSE n \in vs : \A m \in vs : n <= m
    IN  Tail(words[k])

\* AvScan has run to its end: it returned, or it ended the process
Acted == cmd = "scan" /\ (pc \in {"scanned", "done"} \/ proc # "running")

Returned == cmd = "scan" /\ pc \in {"scanned", "done"}

\* ParseBitdefenderOutput was called, and with a nil error
NilParse ==
    /\ Acted
    /\ IF prog = "part_000" THEN err \in {NoErr, ErrInfected} ELSE err = NoErr

\* ParseBitdefenderOutput was called
AnyParse ==
    /\ Acted
    /\ prog = "part_000" => err \in {NoErr, ErrInfected}

-----------------------------------------------------------------------------
(* C1 *)

\* C1 as stated: for every output with a line "<path> infected: <Name>",
\* the parse with a nil error returns infected = true and Result = the
\* trimmed text after "infected:" on that line.
\* (Read in the claim's favour: a line of that form holds the marker once
\* and a name, and the sentinel is absent or readable.)
C1_AsStated ==
    (NilParse /\ sentinel.state # "unreadable") =>
        \A i \in InfectedLines(out) :
            ( /\ NameSegment(LinesOf(out)[i]) = AfterMarker(LinesOf(out)[i])
              /\ TrimSpace(AfterMarker(LinesOf(out)[i])) # <<>> )
            => /\ Returned
               /\ bitdefender.Infected
               /\ bitdefender.Result = TrimSpace(AfterMarker(LinesOf(out)[i]))

\* C1 amended: when the output has report lines, none of them without a
\* name, and the sentinel can be read or is absent, the parse with a nil
\* error returns infected = true and Result = the trimmed text between the
\* first "infected:" and the next one (or the line's end) of the LAST report
\* line.
C1_LastReportLine ==
    ( /\ NilParse
      /\ InfectedLines(out) # {}
      /\ ~HasEmptyName(out)
      /\ sentinel.state # "unreadable" )
    => /\ Returned
       /\ bitdefender.Infected
       /\ bitdefender.Result =
              TrimSpace(NameSegment(LinesOf(out)[Last(InfectedLines(out))]))

\* two report lines with different names were parsed: the later one decides
C1_Witness ==
    /\ NilParse /\ Returned
    /\ out = ChunkInfected \o ChunkName \o ChunkSecond
    /\ bitdefender.Infected
    /\ bitdefender.Result = <<"M">>

-----------------------------------------------------------------------------
(* C2 *)

\* C2 as stated: whenever the output parsed has a line with "infected:" and
\* nothing but white space after it, the parse ends the process with the
\* integrity error and returns no result.
C2_AsStated ==
    (AnyParse /\ HasEmptyName(out)) =>
        /\ proc = "exit2"
        /\ bitdefender = NoResult
        /\ emitted = NoResult

-----------------------------------------------------------------------------
(* C3 *)

\* C3: every result AvScan returns, and every result main publishes, has
\* infected = true exactly when Result is not empty.
C3_InfectedIffNamed ==
    /\ bitdefender # NoResult =>
           (bitdefender.Infected <=> bitdefender.Result # <<>>)
    /\ emitted # NoResult =>
           (emitted.Infected <=> emitted.Result # <<>>)

\* a result was returned from an output with several report lines
C3_Witness ==
    /\ Returned
    /\ Cardinality(InfectedLines(out)) >= 2
    /\ bitdefender.Infected
    /\ bitdefender.Result # <<>>

-----------------------------------------------------------------------------
(* C4 *)

\* C4 as stated: the engine version comes from the FIRST word that starts
\* with "v" of the banner line (here: of the last banner line, the one that
\* decides the field), without that "v".
C4_AsStated ==
    (NilParse /\ Returned /\ BannerLines(out) # {}) =>
        bitdefender.Engine = FirstVersion(LinesOf(out)[Last(BannerLines(out))])

-----------------------------------------------------------------------------
(* C5 *)

ExpectedUpdated == IF sentinel.state = "present" THEN sentinel.content ELSE BuildTime

-----------------------------------------------------------------------------
(* C6 *)

\* C6 as stated: after a process-level failure of the scanner, AvScan hands
\* no result to its caller, and none is published.
C6_AsStated ==
    (cmd = "scan" /\ err \in ProcessErrors) =>
        bitdefender = NoResult /\ emitted = NoResult

-----------------------------------------------------------------------------
(* C7 *)

\* C7 as stated: when the update command ended with an error the sentinel
\* is left as it was and the process fails hard; when it succeeded and the
\* write failed, updateAV returns the write error.
C7_AsStated ==
    [][ (cmd = "update" /\ pc = "ran") =>
            /\ err # NoErr => (sentinel' = sentinel /\ proc' = "fatal")
            /\ (err = NoErr /\ sentinel' # Present(Today)) =>
                   retErr' \in {ErrOpen, ErrWrite}
      ]_vars

-----------------------------------------------------------------------------
(* C8 *)

\* C8 as stated: a request that created its temp file and has ended, by
\* returning or by ending the process, has left no temp file behind.
C8_AsStated ==
    \A r \in Requests :
        (req[r].pc \in {"done", "exited"} /\ req[r].tmp # 0) =>
            files[req[r].tmp] = NoFile

-----------------------------------------------------------------------------
(* C9 *)

\* C9 as stated: a request without the "malware" field is answered 400 with
\* the text and handled no further: the missing upload is not dereferenced,
\* no temp file is made, no scan is run; a scan result is the body only of a
\* request that had an upload.
C9_AsStated ==
    \A r \in Requests :
        /\ (req[r].upload = NoUpload /\ req[r].pc \notin {"idle", "formfile"}) =>
               /\ req[r].status = 400
               /\ req[r].body = BadRequestText
               /\ req[r].pc # "panicked"
               /\ req[r].tmp = 0
               /\ req[r].scanned = 0
        /\ req[r].status = 200 => req[r].upload # NoUpload

-----------------------------------------------------------------------------
(* C10 *)

\* the results a scan of upload u may give
OwnResults(u) ==
    {AvScan(run[1], run[2], sentinel).val :
        run \in {x \in ScannerRun(u) : AvScan(x[1], x[2], sentinel).kind = "return"}}

\* C10 as stated: each request's scanner run is on the temp file of that
\* request, and the result a request holds or sends is a scan of its own
\* upload.
C10_AsStated ==
    \A r \in Requests :
        /\ req[r].scanned # 0 => req[r].scanned = req[r].tmp
        /\ req[r].bitdefender # NoResult =>
               req[r].bitdefender \in OwnResults(req[r].upload)

=============================================================================
